---------------------------- MODULE Spec2Model ----------------------------
(***************************************************************************)
(* RESHAPE (F2018 16.9.163) of the Fortran runtime,                        *)
(* src/runtime/transformational.cc, as a state machine.  One call of       *)
(* RESHAPE(source, shape, pad, order) runs from its first CHECK to its     *)
(* return, a fatal CHECK, a failed allocation or a trap.                   *)
(*                                                                         *)
(* Integer arrays (shape, order) are modelled down to their bytes, little  *)
(* endian two's complement, so that reading an element at a width other    *)
(* than the array's own is something the model computes.  Elements of      *)
(* source and pad are opaque values named by the array and the subscripts  *)
(* they are stored at.                                                     *)
(***************************************************************************)
EXTENDS Integers, Sequences, FiniteSets, TLC

VARIABLES
  source, shape, pad, order,   \* the four argument descriptors
  stray,                       \* content of the bytes that lie outside every array
  lenParametersAtCall,         \* the source's length type parameters at the call
  pc, fatalAt,                 \* position in RESHAPE; the CHECK that failed
  resultRank, resultExtent, resultElements,
  decodedOrder,                \* the values read from order, in order
  dimOrder,
  result,                      \* the result descriptor, its addendum and its data
  resultSubscript, sourceSubscript, padSubscript,
  resultElement,               \* loop counter of the two transfer loops
  written                      \* the element copies performed, in order

vars == <<source, shape, pad, order, stray, lenParametersAtCall, pc, fatalAt, resultRank,
          resultExtent, resultElements, decodedOrder, dimOrder, result,
          resultSubscript,
          sourceSubscript, padSubscript, resultElement, written>>

----------------------------------------------------------------------------
(* Bounds of the model. *)

\* CFI_MAX_RANK is 15 in the runtime; the model runs with a smaller rank limit.
maxRank == 3
\* Largest extent a shape element asks for.
MaxExtent == 2
\* Largest number of length type parameters of a derived type.
MaxLenParameters == 2

\* The element widths GetInt64 has a case for.
Widths == {1, 2, 4, 8}
\* Magnitude standing for every decoded integer outside -65536 .. 65535.
OutOfRange == 256 * 256
\* What a byte outside every array may hold.
StrayBytes == {0, 255}
\* A dimOrder entry that was never written.
Unwritten == 0 - 1

----------------------------------------------------------------------------
(* Arithmetic helpers. *)

RECURSIVE Product(_)
Product(s) == IF s = <<>> THEN 1 ELSE Head(s) * Product(Tail(s))

Min(a, b) == IF a < b THEN a ELSE b

Injective(f) == \A a, b \in DOMAIN f : f[a] = f[b] => a = b

Perms(n) == {p \in [1..n -> 1..n] : Injective(p)}

----------------------------------------------------------------------------
(* Integer decoder. *)

\* The w bytes of v, least significant first (two's complement).
ToBytes(v, w) ==
  [i \in 1..w |-> IF i = 1 THEN v % 256
                  ELSE IF i = 2 THEN (v \div 256) % 256
                  ELSE IF v < 0 THEN 255 ELSE 0]

RECURSIVE Encode(_, _)
Encode(vals, w) ==
  IF vals = <<>> THEN <<>> ELSE ToBytes(Head(vals), w) \o Encode(Tail(vals), w)

\* Integer<BITS>::ToInt64 of the bytes bs: the value, sign extended.  A value
\* outside -65536 .. 65535 is returned as OutOfRange with its sign.
LoadInt64(bs) ==
  LET w  == Len(bs)
      lo == IF w = 1 THEN bs[1] ELSE bs[1] + 256 * bs[2]
      hi == {bs[i] : i \in 3..w}
  IN  IF w = 1 THEN (IF lo >= 128 THEN lo - 256 ELSE lo)
      ELSE IF w = 2 THEN (IF lo >= 32768 THEN lo - 65536 ELSE lo)
      ELSE IF hi = {0} THEN lo
      ELSE IF hi = {255} THEN lo - 65536
      ELSE IF bs[w] >= 128 THEN 0 - OutOfRange ELSE OutOfRange

\* The bytes of memory at offsets off+1 .. off+n from the start of mem; what
\* lies past the end of mem is not part of the array.
ReadBytes(mem, off, n) ==
  [i \in 1..n |-> IF off + i <= Len(mem) THEN mem[off + i] ELSE stray]

\* GetInt64(p, bytes): the switch has a case for 1, 2, 4 and 8 bytes.
GetInt64Defined(bytes) == bytes \in Widths

GetInt64(mem, off, bytes) == LoadInt64(ReadBytes(mem, off, bytes))

----------------------------------------------------------------------------
(* Descriptor. *)

Elements(d) == Product(d.ext)

\* Byte offset of the element of a rank-1 array at subscript s.
ElementOffset(d, s) == (s - d.lb[1]) * d.bytes

GetLowerBounds(d) == d.lb

UpperBound(d, k) == d.lb[k] + d.ext[k] - 1

\* The subscripts after one increment, dimension perm[1] first.
RECURSIVE IncrementFrom(_, _, _, _)
IncrementFrom(d, sub, perm, j) ==
  IF j > d.rank THEN sub
  ELSE LET k == perm[j] + 1
       IN  IF sub[k] < UpperBound(d, k)
           THEN [sub EXCEPT ![k] = sub[k] + 1]
           ELSE IncrementFrom(d, [sub EXCEPT ![k] = d.lb[k]], perm, j + 1)

Identity(n) == [j \in 1..n |-> j - 1]

IncrementSubscripts(d, sub) == IncrementFrom(d, sub, Identity(d.rank), 1)

IncrementSubscriptsPermuted(d, sub, perm) == IncrementFrom(d, sub, perm, 1)

InBounds(d, sub) ==
  \A k \in 1..d.rank : sub[k] >= d.lb[k] /\ sub[k] <= UpperBound(d, k)

\* Every subscript tuple of an array with lower bounds 1 and extents ext.
AllSubscripts(ext) ==
  {s \in [1..Len(ext) -> 1..MaxExtent] : \A k \in 1..Len(ext) : s[k] <= ext[k]}

\* Descriptor of an array of opaque elements.
Array(name, lb, ext, bytes) ==
  [present |-> TRUE, name |-> name, rank |-> Len(ext), lb |-> lb, ext |-> ext,
   bytes |-> bytes, derived |-> FALSE, lenParameters |-> <<>>]

\* The same array, of a derived type with the length type parameters lens.
Derived(d, lens) == [d EXCEPT !.derived = TRUE, !.lenParameters = lens]

\* Descriptor of a rank-1 integer array holding vals in elements of w bytes.
IntArray(lb, vals, w) ==
  [present |-> TRUE, rank |-> 1, isInteger |-> TRUE, lb |-> <<lb>>,
   ext |-> <<Len(vals)>>, bytes |-> w, mem |-> Encode(vals, w)]

\* An optional argument that was not passed (a null pointer).
Absent == [present |-> FALSE]

\* The element of source or pad stored at the subscripts sub.
ElementAt(d, sub) == <<d.name, sub>>

----------------------------------------------------------------------------
(* The calls the model runs. *)

Scalar == Array("source", <<>>, <<>>, 4)
Empty  == Array("source", <<1>>, <<0>>, 4)
Vector == Array("source", <<0>>, <<MaxExtent + 1>>, 4)
Matrix == Array("source", <<1, 3>>, <<2, MaxExtent>>, 4)
Sources == {Scalar, Empty, Vector, Matrix}

EmptyPad  == Array("pad", <<1>>, <<0>>, 4)
OnePad    == Array("pad", <<5>>, <<1>>, 4)
TwoPad    == Array("pad", <<0, 3>>, <<2, 1>>, 4)
WidePad   == Array("pad", <<1>>, <<2>>, 8)
NarrowPad == Array("pad", <<1>>, <<2>>, 2)
Pads == {Absent, EmptyPad, OnePad, TwoPad, WidePad, NarrowPad}

Ranks == 0..maxRank
ExtentValues == (0 - 1)..MaxExtent
AllTwos(r) == [j \in 1..r |-> 2]

ShapeOf(vals, w) == IntArray(1, vals, w)
OrderOf(vals, w) == IntArray(0, vals, w)

\* Shapes RESHAPE must refuse before it reads an element, and a shape in
\* elements of 16 bytes, a width GetInt64 has no case for.
OddShapes ==
  { [ShapeOf(<<2, 1>>, 4) EXCEPT !.rank = 2, !.lb = <<1, 1>>, !.ext = <<2, 1>>],
    [ShapeOf(<<>>, 4) EXCEPT !.rank = 0, !.lb = <<>>, !.ext = <<>>],
    [ShapeOf(<<2>>, 4) EXCEPT !.isInteger = FALSE],
    ShapeOf([j \in 1..maxRank + 1 |-> 1], 4),
    ShapeOf(<<2>>, 16) }

\* The result before Descriptor::Create.
NoResult ==
  [created |-> FALSE, allocated |-> FALSE, rank |-> 0, lb |-> <<>>, ext |-> <<>>,
   bytes |-> 0, derived |-> FALSE, addendum |-> FALSE, flags |-> {},
   lenParameters |-> <<>>, data |-> <<>>]

\* RESHAPE(src, shp, pd, ord) is entered.
Call(src, shp, pd, ord, byte) ==
  /\ source = src /\ shape = shp /\ pad = pd /\ order = ord
  /\ stray = byte
  /\ lenParametersAtCall = src.lenParameters
  /\ pc = "CheckShape" /\ fatalAt = ""
  /\ resultRank = 0 /\ resultExtent = <<>> /\ resultElements = 1
  /\ decodedOrder = <<>> /\ dimOrder = <<>>
  /\ result = NoResult
  /\ resultSubscript = <<>> /\ sourceSubscript = <<>> /\ padSubscript = <<>>
  /\ resultElement = 0
  /\ written = <<>>

\* Every source with every pad and every shape, no order.
PlainCalls ==
  \/ \E src \in Sources, pd \in Pads, byte \in StrayBytes, shp \in OddShapes :
       Call(src, shp, pd, Absent, byte)
  \/ \E src \in Sources, pd \in Pads, byte \in StrayBytes, r \in Ranks :
       \E v \in [1..r -> ExtentValues] :
         Call(src, ShapeOf(v, 4), pd, Absent, byte)

\* Every permutation as order, in elements as wide as the shape's.
PermutedCalls ==
  \E src \in {Vector, Matrix}, pd \in {Absent, TwoPad}, r \in Ranks :
    \E v \in [1..r -> 0..MaxExtent], p \in Perms(r) :
      Call(src, ShapeOf(v, 4), pd, OrderOf(p, 4), 0)

\* Shape and order in elements of every pair of widths; the entries of
\* order may carry a set bit above the low byte where the width has room.
WidthCalls ==
  \E r \in Ranks, sw \in Widths, ow \in Widths, byte \in StrayBytes :
    \E p \in Perms(r), b \in [1..r -> IF ow = 1 THEN {0} ELSE {0, 1}] :
      Call(Vector, ShapeOf(AllTwos(r), sw), TwoPad,
           OrderOf([j \in 1..r |-> p[j] + 256 * b[j]], ow), byte)

\* Orders that are not a permutation of 1..resultRank, or not a rank-1
\* integer array of resultRank elements.
MalformedCalls ==
  \E r \in Ranks :
    \/ \E o \in [1..r -> 0..r + 1] :
         Call(Vector, ShapeOf(AllTwos(r), 4), TwoPad, OrderOf(o, 4), 0)
    \/ \E ord \in {OrderOf([j \in 1..r + 1 |-> j], 4),
                   [OrderOf([j \in 1..r |-> j], 4) EXCEPT !.isInteger = FALSE],
                   [OrderOf([j \in 1..r |-> j], 4)
                      EXCEPT !.rank = 2, !.lb = <<0, 0>>, !.ext = <<r, 1>>]} :
         Call(Vector, ShapeOf(AllTwos(r), 4), TwoPad, ord, 0)

\* Sources of a derived type.
DerivedCalls ==
  \E src \in {Scalar, Vector}, pd \in {Absent, TwoPad},
     n \in 0..MaxLenParameters, r \in 0..2 :
    \E lens \in [1..n -> {3, 7}], v \in [1..r -> 0..MaxExtent] :
      Call(Derived(src, lens), ShapeOf(v, 4), pd, Absent, 0)

Init ==
  \/ PlainCalls
  \/ PermutedCalls
  \/ WidthCalls
  \/ MalformedCalls
  \/ DerivedCalls

----------------------------------------------------------------------------
(* RESHAPE. *)

args  == <<source, shape, pad, order, stray, lenParametersAtCall>>
sizes == <<resultRank, resultExtent, resultElements>>
perm  == <<decodedOrder, dimOrder>>
xfer  == <<resultSubscript, sourceSubscript, padSubscript, resultElement, written>>

\* A CHECK that fails ends the process.
Fatal(check) == pc' = "fatal" /\ fatalAt' = check

\* Lines 45-48: the rank of the result.
CheckShape ==
  /\ pc = "CheckShape"
  /\ IF shape.rank # 1
       THEN Fatal("shape.rank() == 1") /\ UNCHANGED resultRank
     ELSE IF ~ shape.isInteger
       THEN Fatal("shape.type().IsInteger()") /\ UNCHANGED resultRank
     ELSE /\ resultRank' = shape.ext[1]
          /\ IF shape.ext[1] >= 0 /\ shape.ext[1] <= maxRank
               THEN pc' = "DecodeShape" /\ UNCHANGED fatalAt
               ELSE Fatal("resultRank >= 0 && resultRank <= maxRank")
  /\ UNCHANGED <<args, resultExtent, resultElements, perm, result, xfer>>

\* Lines 56-62: the loop over the elements of shape, from element j on.
RECURSIVE ShapeLoop(_, _, _, _)
ShapeLoop(j, shapeSubscript, extent, elements) ==
  IF j >= resultRank
    THEN [check |-> "", extent |-> extent, elements |-> elements]
  ELSE IF ~ GetInt64Defined(shape.bytes)
    THEN [check |-> "CRASH_NO_CASE", extent |-> extent, elements |-> elements]
  ELSE LET e == GetInt64(shape.mem, ElementOffset(shape, shapeSubscript), shape.bytes)
       IN  IF e >= 0
             THEN ShapeLoop(j + 1, shapeSubscript + 1, Append(extent, e), elements * e)
             ELSE [check |-> "resultExtent[j] >= 0", extent |-> Append(extent, e),
                   elements |-> elements]

\* Lines 50-62: the shape of the result and its element count.
DecodeShape ==
  /\ pc = "DecodeShape"
  /\ LET r == ShapeLoop(0, shape.lb[1], <<>>, 1)
     IN  /\ resultExtent' = r.extent
         /\ resultElements' = r.elements
         /\ IF r.check = "" THEN pc' = "CheckPad" /\ UNCHANGED fatalAt
                            ELSE Fatal(r.check)
  /\ UNCHANGED <<args, resultRank, perm, result, xfer>>

\* Line 69: the condition under which the pad is checked.
PadChecked(elements, sourceElements) == elements < sourceElements

\* Lines 64-72: sufficient elements in source, or a pad.
CheckPad ==
  /\ pc = "CheckPad"
  /\ LET elementBytes   == source.bytes
         sourceElements == Elements(source)
         padElements    == IF pad.present THEN Elements(pad) ELSE 0
     IN  IF PadChecked(resultElements, sourceElements)
           THEN IF ~ (padElements > 0) THEN Fatal("padElements > 0")
                ELSE IF ~ (pad.bytes = elementBytes)
                  THEN Fatal("pad->ElementBytes() == elementBytes")
                ELSE pc' = "CheckOrder" /\ UNCHANGED fatalAt
           ELSE pc' = "CheckOrder" /\ UNCHANGED fatalAt
  /\ UNCHANGED <<args, sizes, perm, result, xfer>>

\* Line 84: the width at which the elements of order are read.
OrderElementBytes == shape.bytes

\* Line 87: the entry of dimOrder written for the value k read at position j.
SetDimOrder(dims, k, j) == [dims EXCEPT ![(k - 1) + 1] = j]

\* Lines 83-88: the loop over the elements of order, from element j on.
\* Element<char>(orderSubscript) is taken as the address of the element at
\* that subscript, as Element<char>(&shapeSubscript) is at line 59.
RECURSIVE OrderLoop(_, _, _, _, _)
OrderLoop(j, orderSubscript, values, dims, read) ==
  IF j >= resultRank
    THEN [check |-> "", dims |-> dims, read |-> read]
  ELSE IF ~ GetInt64Defined(OrderElementBytes)
    THEN [check |-> "CRASH_NO_CASE", dims |-> dims, read |-> read]
  ELSE LET k == GetInt64(order.mem, ElementOffset(order, orderSubscript),
                         OrderElementBytes)
       IN  IF k >= 1 /\ k <= resultRank /\ (k - 1) \notin values
             THEN OrderLoop(j + 1, orderSubscript + 1, values \cup {k - 1},
                            SetDimOrder(dims, k, j), Append(read, k))
             ELSE [check |-> "k >= 1 && k <= resultRank && !values.test(k - 1)",
                   dims |-> dims, read |-> Append(read, k)]

\* Lines 74-93: the optional order, a permutation of 1..resultRank.
CheckOrder ==
  /\ pc = "CheckOrder"
  /\ IF order.present
       THEN IF order.rank # 1
              THEN Fatal("order->rank() == 1") /\ UNCHANGED perm
            ELSE IF ~ order.isInteger
              THEN Fatal("order->type().IsInteger()") /\ UNCHANGED perm
            ELSE IF order.ext[1] # resultRank
              THEN Fatal("order->GetDimension(0).Extent() == resultRank")
                   /\ UNCHANGED perm
            ELSE LET r == OrderLoop(0, order.lb[1], {},
                                    [p \in 1..maxRank |-> Unwritten], <<>>)
                 IN  /\ dimOrder' = r.dims
                     /\ decodedOrder' = r.read
                     /\ IF r.check = "" THEN pc' = "Create" /\ UNCHANGED fatalAt
                                        ELSE Fatal(r.check)
       ELSE /\ dimOrder' = [p \in 1..maxRank |->
                              IF p <= resultRank THEN p - 1 ELSE Unwritten]
            /\ pc' = "Create"
            /\ UNCHANGED <<fatalAt, decodedOrder>>
  /\ UNCHANGED <<args, sizes, result, xfer>>

\* Descriptor::Create: a descriptor of the rank and extents asked for, with
\* an addendum whose length type parameters are not yet set.  The lower
\* bounds come with Allocate.
Create(derived, lenParameters, bytes, rank, extent) ==
  [created |-> TRUE, allocated |-> FALSE, rank |-> rank,
   lb |-> <<>>, ext |-> extent, bytes |-> bytes,
   derived |-> derived, addendum |-> TRUE, flags |-> {},
   lenParameters |-> [j \in 1..lenParameters |-> 0], data |-> <<>>]

\* Line 110: the flags of the result's addendum.
SetFlags(flags) == flags \cup {"DoNotFinalize"}

\* Lines 111-117 with a loop that stops one parameter early.
CopyLenParametersShort(res, src) ==
  [j \in 1..Len(src.lenParameters) |->
     IF j < Len(src.lenParameters) THEN src.lenParameters[j]
                                   ELSE res.lenParameters[j]]

\* Lines 111-117: the length type parameters of the result, from the source's.
CopyLenParameters(res, src) ==
  [j \in 1..Len(src.lenParameters) |-> src.lenParameters[j]]

\* Lines 95-117: the result's descriptor.
CreateResult ==
  /\ pc = "Create"
  /\ LET sourceDerivedType == source.derived
         created == IF sourceDerivedType
                      THEN Create(TRUE, Len(source.lenParameters), source.bytes,
                                  resultRank, resultExtent)
                      ELSE Create(FALSE, 0, source.bytes, resultRank, resultExtent)
     IN  IF ~ created.addendum
           THEN Fatal("resultAddendum != nullptr") /\ result' = created
           ELSE /\ result' =
                     [created EXCEPT
                        !.flags = SetFlags(created.flags),
                        !.lenParameters =
                           IF sourceDerivedType
                             THEN CopyLenParameters(created, source)
                             ELSE created.lenParameters]
                /\ pc' = "Allocate"
                /\ UNCHANGED fatalAt
  /\ UNCHANGED <<args, sizes, perm, xfer>>

\* A result element no copy has reached.
Uninitialized == <<"uninitialized", <<>>>>

\* Lines 51 and 57: the lower bounds of the result, all 1's.
lowerBound == [j \in 1..resultRank |-> 1]

\* Lines 118-130: storage for the result; the cursors at the lower bounds.
Allocate ==
  /\ pc = "Allocate"
  /\ result' = [result EXCEPT !.allocated = TRUE,
                              !.lb = lowerBound,
                              !.data = [s \in AllSubscripts(resultExtent) |->
                                          Uninitialized]]
  /\ resultSubscript' = GetLowerBounds(result')
  /\ sourceSubscript' = GetLowerBounds(source)
  /\ resultElement' = 0
  /\ pc' = "FromSource"
  /\ UNCHANGED <<args, sizes, perm, fatalAt, padSubscript, written>>

\* Lines 119-122: Allocate reports a failure and RESHAPE dies.
AllocateFails ==
  /\ pc = "Allocate"
  /\ pc' = "died"
  /\ fatalAt' = "RESHAPE: Allocate failed"
  /\ UNCHANGED <<args, sizes, perm, result, xfer>>

\* Line 130.
ElementsFromSource == Min(resultElements, Elements(source))

\* One memcpy into the result at resultSubscript, and the cursor's advance.
Store(value, from) ==
  /\ result' = [result EXCEPT !.data[resultSubscript] = value]
  /\ written' = Append(written, [to |-> resultSubscript, value |-> value,
                                  from |-> from])
  /\ resultSubscript' = IncrementSubscriptsPermuted(result, resultSubscript, dimOrder)
  /\ resultElement' = resultElement + 1

\* Lines 131-136: one element from source.
CopyFromSource ==
  /\ pc = "FromSource"
  /\ resultElement < ElementsFromSource
  /\ Store(ElementAt(source, sourceSubscript), "source")
  /\ sourceSubscript' = IncrementSubscripts(source, sourceSubscript)
  /\ UNCHANGED <<args, sizes, perm, pc, fatalAt, padSubscript>>

\* Lines 137-140: the source is exhausted and the pad takes over.
StartPad ==
  /\ pc = "FromSource"
  /\ ~ (resultElement < ElementsFromSource)
  /\ resultElement < resultElements
  /\ pad.present
  /\ padSubscript' = GetLowerBounds(pad)
  /\ pc' = "FromPad"
  /\ UNCHANGED <<args, sizes, perm, fatalAt, result, resultSubscript,
                 sourceSubscript, resultElement, written>>

\* Line 140 with pad a null pointer: the read through it traps, or yields
\* whatever lies there.
StartNullPad ==
  /\ pc = "FromSource"
  /\ ~ (resultElement < ElementsFromSource)
  /\ resultElement < resultElements
  /\ ~ pad.present
  /\ pc' \in {"trap", "FromPad"}
  /\ padSubscript' = <<>>
  /\ UNCHANGED <<args, sizes, perm, fatalAt, result, resultSubscript,
                 sourceSubscript, resultElement, written>>

\* What memcpy reads at the pad cursor for an element of `bytes` bytes.
PadElement(bytes) ==
  IF ~ pad.present \/ ~ InBounds(pad, padSubscript)
    THEN <<"stray", <<stray>>>>
  ELSE IF pad.bytes = bytes THEN ElementAt(pad, padSubscript)
  ELSE IF pad.bytes > bytes THEN <<"front of pad", padSubscript>>
  ELSE <<"pad and beyond", padSubscript \o <<stray>>>>

\* Lines 141-146: one element from pad.
CopyFromPad ==
  /\ pc = "FromPad"
  /\ resultElement < resultElements
  /\ Store(PadElement(source.bytes), "pad")
  /\ padSubscript' = IF pad.present THEN IncrementSubscripts(pad, padSubscript)
                                     ELSE padSubscript
  /\ UNCHANGED <<args, sizes, perm, pc, fatalAt, sourceSubscript>>

\* Lines 137 and 149: nothing is left to fill after the source loop.
ReturnAfterSource ==
  /\ pc = "FromSource"
  /\ ~ (resultElement < ElementsFromSource)
  /\ ~ (resultElement < resultElements)
  /\ pc' = "done"
  /\ UNCHANGED <<args, sizes, perm, fatalAt, result, xfer>>

\* Lines 141 and 149: the pad loop ends.
ReturnAfterPad ==
  /\ pc = "FromPad"
  /\ ~ (resultElement < resultElements)
  /\ pc' = "done"
  /\ UNCHANGED <<args, sizes, perm, fatalAt, result, xfer>>

Next ==
  \/ CheckShape
  \/ DecodeShape
  \/ CheckPad
  \/ CheckOrder
  \/ CreateResult
  \/ Allocate
  \/ AllocateFails
  \/ CopyFromSource
  \/ StartPad
  \/ StartNullPad
  \/ CopyFromPad
  \/ ReturnAfterSource
  \/ ReturnAfterPad

Spec == Init /\ [][Next]_vars

----------------------------------------------------------------------------
(* Vocabulary of the properties. *)

\* The subscripts of the element at position i (from 0) of d's natural order.
RECURSIVE Stride(_, _)
Stride(d, k) == IF k = 1 THEN 1 ELSE Stride(d, k - 1) * d.ext[k - 1]

NaturalSubscripts(d, i) ==
  [k \in 1..d.rank |-> d.lb[k] + ((i \div Stride(d, k)) % d.ext[k])]

N == Elements(source)
M == resultElements
P == IF pad.present THEN Elements(pad) ELSE 0

ShapeChecks ==
  {"shape.rank() == 1", "shape.type().IsInteger()",
   "resultRank >= 0 && resultRank <= maxRank", "resultExtent[j] >= 0",
   "CRASH_NO_CASE"}
PadChecks == {"padElements > 0", "pad->ElementBytes() == elementBytes"}
OrderShapeChecks ==
  {"order->rank() == 1", "order->type().IsInteger()",
   "order->GetDimension(0).Extent() == resultRank"}
OrderValueCheck == "k >= 1 && k <= resultRank && !values.test(k - 1)"
OrderChecks == OrderShapeChecks \cup {OrderValueCheck}

\* RESHAPE has read the shape and found nothing wrong with it.
ShapeAccepted ==
  /\ pc \notin {"CheckShape", "DecodeShape"}
  /\ ~ (pc = "fatal" /\ fatalAt \in ShapeChecks)

\* RESHAPE has gone past the check of lines 69-72.
PadAccepted ==
  ShapeAccepted /\ pc # "CheckPad" /\ ~ (pc = "fatal" /\ fatalAt \in PadChecks)

\* The check of order (lines 77-93) has been made.
OrderDecided == PadAccepted /\ pc # "CheckOrder"

\* ... and RESHAPE went on.
OrderAccepted == OrderDecided /\ pc # "fatal"

\* The integers the caller stored in order, read at order's own width.
StoredOrder ==
  [j \in 1..order.ext[1] |->
     LoadInt64([i \in 1..order.bytes |-> order.mem[(j - 1) * order.bytes + i]])]

\* order is a rank-1 integer array holding a permutation of 1..resultRank.
OrderWellFormed ==
  /\ order.rank = 1 /\ order.isInteger /\ order.ext[1] = resultRank
  /\ \A j \in 1..resultRank : StoredOrder[j] >= 1 /\ StoredOrder[j] <= resultRank
  /\ Injective(StoredOrder)

\* The first resultRank entries of dimOrder are a permutation of 0..resultRank-1.
DimOrderIsPermutation ==
  /\ \A p \in 1..resultRank : dimOrder[p] \in 0..resultRank - 1
  /\ \A p, q \in 1..resultRank : dimOrder[p] = dimOrder[q] => p = q

\* Element i (from 0) of source, and of pad used cyclically, in natural order.
SourceElement(i) == ElementAt(source, NaturalSubscripts(source, i))
PadElementCyclic(i) == ElementAt(pad, NaturalSubscripts(pad, i % P))

\* The copies made so far are the first ones of a fill from source, then pad.
FilledFromSourceThenPad ==
  \A i \in 1..Len(written) :
    written[i].value = IF i - 1 < N THEN SourceElement(i - 1)
                                    ELSE PadElementCyclic(i - 1 - N)

\* Every element of the result was written exactly once, M copies in all.
PopulatedExactlyOnce ==
  /\ Len(written) = M
  /\ \A i \in 1..Len(written) : InBounds(result, written[i].to)
  /\ \A i, j \in 1..Len(written) : written[i].to = written[j].to => i = j
  /\ {written[i].to : i \in 1..Len(written)} = AllSubscripts(resultExtent)
  /\ Cardinality({i \in 1..Len(written) : written[i].from = "source"}) = Min(M, N)

----------------------------------------------------------------------------
(* The claims. *)

\* C1: whenever the result needs more elements than source has (M > N),
\* RESHAPE goes past its sufficiency check only with a pad that is present,
\* non-empty and of the source's element size, and the pad loop is never
\* entered with an absent, empty or size-mismatched pad.
C1_GrowRequiresPad ==
  /\ (PadAccepted /\ M > N) =>
        (pad.present /\ P > 0 /\ pad.bytes = source.bytes)
  /\ pc = "FromPad" => (pad.present /\ P > 0 /\ pad.bytes = source.bytes)

\* C2: a call with M < N and no pad meets no fatal check for want of a pad,
\* and when it returns the result holds the first M elements of source in
\* source's natural order.
C2_ShrinkWithoutPad ==
  (ShapeAccepted /\ M < N /\ ~ pad.present) =>
     /\ ~ (pc = "fatal" /\ fatalAt \in PadChecks)
     /\ pc = "done" =>
          /\ Len(written) = M
          /\ \A i \in 1..M : written[i].value = SourceElement(i - 1)
          /\ \A i \in 1..M : written[i].from = "source"

\* C3: with a valid order, dimOrder read as fill position -> result dimension
\* is dimOrder[p] = order[p+1] - 1.  (Orders in elements as wide as the
\* shape's, so that the values RESHAPE reads are the values stored.)
C3_DimOrderFollowsOrder ==
  (order.present /\ OrderAccepted /\ OrderWellFormed /\ order.bytes = shape.bytes) =>
     \A p \in 0..resultRank - 1 : dimOrder[p + 1] = StoredOrder[p + 1] - 1

\* C4: in a call accepted with M > N and a pad of P >= 1 elements, the i-th
\* copy (from 0) stores source element i for i < N and pad element
\* (i - N) mod P for N <= i < M, each in its array's natural order.
C4_GrowWithPad ==
  (PadAccepted /\ M > N /\ pad.present /\ P >= 1) => FilledFromSourceThenPad

\* C5: with an order supplied, RESHAPE goes past the validation of order if
\* and only if order is a rank-1 integer array of resultRank pairwise distinct
\* integers in 1..resultRank, and then dimOrder is a permutation of
\* 0..resultRank-1.
C5_OrderValidation ==
  (order.present /\ OrderDecided) =>
     /\ OrderAccepted <=> OrderWellFormed
     /\ OrderAccepted => DimOrderIsPermutation

\* C6: an abnormal end that invalid arguments cause comes before the result
\* descriptor is created: a call with an insufficient source and a missing,
\* empty or size-mismatched pad never gets a result descriptor, and no fatal
\* CHECK or trap follows Descriptor::Create.
C6_ValidationPrecedesAllocation ==
  /\ pc \in {"fatal", "trap"} => ~ result.created
  /\ (ShapeAccepted /\ M > N /\ ~ (pad.present /\ P > 0 /\ pad.bytes = source.bytes))
        => ~ result.created

\* C7: with a shape of extent 0, resultElements is 1 and, given a source
\* element or else a pad element, RESHAPE ends in no fatal check and returns
\* one element: the first of source, or the first of pad when source is empty.
C7_RankZeroShape ==
  (/\ shape.rank = 1 /\ shape.isInteger /\ shape.ext[1] = 0
   /\ ~ order.present
   /\ ShapeAccepted
   /\ (N >= 1 \/ (pad.present /\ P >= 1))) =>
     /\ M = 1
     /\ pc \notin {"fatal", "trap"}
     /\ pc = "done" =>
          /\ Len(written) = 1
          /\ result.data[<<>>] = IF N >= 1 THEN SourceElement(0)
                                           ELSE PadElementCyclic(0)

\* C8: for a source of a derived type with K length type parameters, from
\* the moment the result's descriptor exists (before storage is allocated) to
\* the return, the result's addendum holds the source's K values and the
\* DoNotFinalize flag, and the source's addendum is as the caller passed it.
C8_LenParametersPropagated ==
  (source.derived /\ pc \in {"Allocate", "FromSource", "FromPad", "done", "died", "trap"}) =>
     /\ result.addendum
     /\ Len(result.lenParameters) = Len(lenParametersAtCall)
     /\ \A j \in 1..Len(lenParametersAtCall) :
          result.lenParameters[j] = lenParametersAtCall[j]
     /\ "DoNotFinalize" \in result.flags
     /\ source.lenParameters = lenParametersAtCall
     /\ (pc = "Allocate" => ~ result.allocated)

\* A derived-type source with MaxLenParameters differing values, reshaped and
\* returned.
C8_Witness ==
  /\ pc = "done"
  /\ source.derived
  /\ Len(source.lenParameters) = MaxLenParameters
  /\ source.lenParameters[1] # source.lenParameters[MaxLenParameters]
  /\ result.lenParameters = source.lenParameters
  /\ Len(written) > 0

\* C9: a call that got past validation ends with exactly M copies, to
\* pairwise distinct subscripts within the result's bounds that cover the
\* result, min(M, N) of them from source.
C9_PopulatedExactlyOnce ==
  pc \in {"done", "trap"} => PopulatedExactlyOnce

\* C10: the values RESHAPE decodes from order are the integers stored in
\* order, whatever the width of the shape's elements.  (Stated for the orders
\* that hold a permutation of 1..resultRank.)
C10_OrderDecodedAtOwnWidth ==
  (order.present /\ OrderDecided /\ OrderWellFormed) =>
     /\ Len(decodedOrder) = resultRank
     /\ \A j \in 1..Len(decodedOrder) : decodedOrder[j] = StoredOrder[j]

============================================================================
